---- MODULE Spec2Model ----
(***************************************************************************)
(* A model of chick_cal/gen_cal.py: the helpers gen_name and gen_event,    *)
(* the per-course tables of event-construction calls, the two calendar     *)
(* builders gen_first_sem and gen_second_sem, and the main program that    *)
(* builds the second-semester calendar and writes it to psb.ics.           *)
(*                                                                         *)
(* A Python str is a sequence of one-character strings, so that            *)
(* startswith, rstrip, zero padding and concatenation are computed.  An    *)
(* optional value (None or a value) is a set of at most one element.  An   *)
(* arrow datetime is a record of its calendar fields; all datetimes of the *)
(* program are in the one timezone TZ and have zero seconds.  A timedelta  *)
(* is a number of minutes.                                                 *)
(***************************************************************************)
EXTENDS Integers, Sequences, FiniteSets, TLC

VARIABLES
  run,        \* the entry point: "main" (__main__), "first_sem" (a caller of gen_first_sem), "call" (one helper call)
  pc,         \* index in Steps(run) of the statement in progress
  fi,         \* index, in the builder in progress, of the course function in progress
  k,          \* number of c.events.add statements of that function already executed
  cal,        \* c.events: the set of Event records of the Calendar
  ncalls,     \* number of Event() objects constructed so far (the source of fresh uids)
  file,       \* psb.ics on disk
  fileBefore, \* psb.ics as it was when the run started
  writable,   \* whether open("psb.ics", "w") is permitted
  fopen,      \* whether the file object f is open
  nopen,      \* number of successful open() calls on psb.ics
  nwrite,     \* number of writelines() calls on psb.ics
  returned,   \* the course functions that have returned, in order
  status,     \* "running", "done", or "failed" (an uncaught exception ended the run)
  error,      \* the exception that ended the run, "" if none
  fault,      \* 0: the date literals are those of the source; n > 0: the n-th supplied date does not exist
  args,       \* the arguments of the helper call (run = "call")
  ret         \* the result of the helper call

vars == <<run, pc, fi, k, cal, ncalls, file, fileBefore, writable, fopen, nopen,
          nwrite, returned, status, error, fault, args, ret>>

---------------------------------------------------------------------------
\* Python values

None == {}

Some(x) == {x}

Val(o) == CHOOSE x \in o : TRUE

Return(v) == [raised |-> FALSE, value |-> v]

Raise(exc) == [raised |-> TRUE, exc |-> exc]

\* str.startswith
StartsWith(s, p) == Len(s) >= Len(p) /\ SubSeq(s, 1, Len(p)) = p

\* str.endswith
EndsWith(s, p) == Len(s) >= Len(p) /\ SubSeq(s, Len(s) - Len(p) + 1, Len(s)) = p

\* str.rstrip(ch): every trailing ch removed
RECURSIVE RStrip(_, _)
RStrip(s, ch) ==
  IF s # <<>> /\ s[Len(s)] = ch THEN RStrip(SubSeq(s, 1, Len(s) - 1), ch) ELSE s

DigitChar(n) == <<"0", "1", "2", "3", "4", "5", "6", "7", "8", "9">>[n + 1]

\* str(n) for n >= 0
RECURSIVE Digits(_)
Digits(n) == IF n < 10 THEN <<DigitChar(n)>> ELSE Digits(n \div 10) \o <<DigitChar(n % 10)>>

\* f"{idx:02}": zero fill to width 2, the sign counted in the width
Format02(idx) ==
  IF idx < 0 THEN <<"-">> \o Digits(-idx)
  ELSE IF idx < 10 THEN <<"0">> \o Digits(idx)
  ELSE Digits(idx)

---------------------------------------------------------------------------
\* Module constants and ClassType

CLASS_TYPES == (0 :> <<"W","o","r","k","s","h","o","p">>) @@ (1 :> <<"0","1"," ","L","e","c","t","u","r","e">>) @@ (2 :> <<"0","2"," ","T","u","t","o","r","i","a","l">>)

\* CLASS_TYPES.get(key, default)
CLASS_TYPES_get(key, default) == IF key \in DOMAIN CLASS_TYPES THEN CLASS_TYPES[key] ELSE default

TZ == <<"A","s","i","a","/","S","i","n","g","a","p","o","r","e">>

SEM_PREFIX == <<"C","U","_","T","R","I","3","2","3","_","F","T">>

\* the members of the enum ClassType
ClassType == {"WORKSHOP", "LEC", "TUT"}

\* ClassType.<member>.value
ClassTypeValue(member) ==
  CASE member = "WORKSHOP" -> <<"0">>
    [] member = "LEC" -> <<"0","1"," ","L","e","c","t","u","r","e">>
    [] member = "TUT" -> <<"0","2"," ","T","u","t","o","r","i","a","l">>

\* gen_name without the rstrip of line 29
gen_name_NoRstrip(code, idx, ct) ==
  LET PREFIX == SEM_PREFIX \o <<"_">> \o code \o <<"_", "S">> \o Format02(idx) \o <<"_">>
  IN  IF ct = "LEC" THEN PREFIX \o <<"L","e","c","/","1">>
      ELSE IF ct = "TUT" THEN
        IF StartsWith(code, <<"M","I">>) THEN PREFIX \o <<"T","u","t","_","B">>
        ELSE IF StartsWith(code, <<"E","C","S","2">>) THEN PREFIX \o <<"A"," ","T","u","t"," ","A">>
        ELSE PREFIX \o <<"T","u","t","/","1">>
      ELSE PREFIX \o <<"W","o","r","k","s","h","o","p">>

gen_name(code, idx, ct) ==
  LET PREFIX == SEM_PREFIX \o <<"_">> \o code \o <<"_", "S">> \o Format02(idx) \o <<"_">>
  IN  IF ct = "LEC" THEN PREFIX \o <<"L","e","c","/","1">>
      ELSE IF ct = "TUT" THEN
        IF StartsWith(code, <<"M","I">>) THEN PREFIX \o <<"T","u","t","_","B">>
        ELSE IF StartsWith(code, <<"E","C","S","2">>) THEN RStrip(PREFIX, "_") \o <<"A"," ","T","u","t"," ","A">>
        ELSE PREFIX \o <<"T","u","t","/","1">>
      ELSE PREFIX \o <<"W","o","r","k","s","h","o","p">>

---------------------------------------------------------------------------
\* arrow datetimes and timedeltas

\* arrow.get(year, month, day, hour, minute, tzinfo=TZ)
arrow_get(year, month, day, hour, minute) ==
  [year |-> year, month |-> month, day |-> day, hour |-> hour, minute |-> minute]

\* Arrow.replace(**kw): the named fields replaced, the others kept
replace(t, kw) == [f \in DOMAIN t |-> IF f \in DOMAIN kw THEN kw[f] ELSE t[f]]

IsLeap(y) == (y % 4 = 0 /\ y % 100 # 0) \/ y % 400 = 0

DaysInMonth(y, m) ==
  IF m = 2 THEN (IF IsLeap(y) THEN 29 ELSE 28)
  ELSE IF m \in {4, 6, 9, 11} THEN 30 ELSE 31

\* arrow.get and Arrow.replace raise ValueError unless the fields name a real date and time
ValidDate(t) ==
  /\ t.year \in 1..9999
  /\ t.month \in 1..12
  /\ t.day \in 1..DaysInMonth(t.year, t.month)
  /\ t.hour \in 0..23
  /\ t.minute \in 0..59

RECURSIVE DaysBeforeMonth(_, _)
DaysBeforeMonth(y, m) == IF m <= 1 THEN 0 ELSE DaysBeforeMonth(y, m - 1) + DaysInMonth(y, m - 1)

\* date.toordinal(): day 1 is 0001-01-01
Ordinal(t) ==
  LET p == t.year - 1
  IN  p * 365 + (p \div 4) - (p \div 100) + (p \div 400) + DaysBeforeMonth(t.year, t.month) + t.day

\* the instant of t, in minutes, for comparing and subtracting datetimes of the one timezone
Timestamp(t) == Ordinal(t) * 1440 + t.hour * 60 + t.minute

\* Arrow.floor('day')
floor_day(t) == [t EXCEPT !.hour = 0, !.minute = 0]

\* t + timedelta(days=n), n >= 0
RECURSIVE AddDays(_, _)
AddDays(t, n) ==
  IF n = 0 THEN t
  ELSE IF t.day < DaysInMonth(t.year, t.month) THEN AddDays([t EXCEPT !.day = @ + 1], n - 1)
  ELSE IF t.month < 12 THEN AddDays([t EXCEPT !.day = 1, !.month = @ + 1], n - 1)
  ELSE AddDays([t EXCEPT !.day = 1, !.month = 1, !.year = @ + 1], n - 1)

timedelta_hours(h) == h * 60

timedelta_days(d) == d * 1440

DisplayAlarm(trigger) == [action |-> "DISPLAY", trigger |-> trigger]

---------------------------------------------------------------------------
\* ics.Event as gen_event uses it

\* Event(): a new event with a fresh uid and nothing set
Event(uid) ==
  [uid |-> uid, name |-> <<>>, begin |-> None, begin_precision |-> "second",
   duration |-> None, end_time |-> None, description |-> <<>>, location |-> <<>>,
   url |-> <<>>, alarms |-> <<>>]

\* Event.all_day
all_day_of(e) == e.begin_precision = "day"

\* Event.end, as an instant: begin + duration, else the end time, else one day
\* after the begin of an all-day event, else the begin
end_of(e) ==
  IF e.duration # None /\ Val(e.duration) # 0 THEN Timestamp(Val(e.begin)) + Val(e.duration)
  ELSE IF e.end_time # None THEN Timestamp(Val(e.end_time))
  ELSE IF all_day_of(e) THEN Timestamp(Val(e.begin)) + 1440
  ELSE Timestamp(Val(e.begin))

\* e.begin = value
set_begin(e, value) ==
  IF e.end_time # None /\ Timestamp(value) > Timestamp(Val(e.end_time))
  THEN Raise("ValueError")
  ELSE Return([e EXCEPT !.begin = Some(value), !.begin_precision = "second"])

\* e.duration = value: a non-zero duration removes the end time
set_duration(e, value) ==
  [e EXCEPT !.duration = Some(value), !.end_time = IF value # 0 THEN None ELSE @]

\* e.make_all_day(): the event spans the days from its begin day to its end day
make_all_day(e) ==
  IF all_day_of(e) THEN e
  ELSE LET begin_day == floor_day(Val(e.begin))
           ndays == (end_of(e) \div 1440) - (Timestamp(begin_day) \div 1440)
       IN  [e EXCEPT !.begin = Some(begin_day),
                     !.end_time = IF ndays = 0 THEN None ELSE Some(AddDays(begin_day, ndays + 1)),
                     !.duration = None,
                     !.begin_precision = "day"]

\* e.end = value: the end time removes the duration
set_end(e, value) ==
  IF e.begin # None /\ Timestamp(value) < Timestamp(Val(e.begin))
  THEN Raise("ValueError")
  ELSE Return([e EXCEPT !.end_time = Some(value), !.duration = None])

URL == <<"h","t","t","p","s",":","/","/","w","w","w",".","p","s","b","-","a","c","a","d","e","m","y",".","e","d","u",".","s","g","/","w","o","r","d","p","r","e","s","s","/","w","p","-","c","o","n","t","e","n","t","/","u","p","l","o","a","d","s","/","2","0","2","0","/","1","1","/","T","r","i","-","2","2","3","-","C","U","_","F","T","B","A","r","t","s","-","B","M","-","2","2","3","_","T","e","r","m","-","1","-","T","i","m","e","t","a","b","l","e",".","p","d","f">>

MainWing == <<"M","a","i","n"," ","W","i","n","g">>

\* the default of the parameter alarms' replacement: one display alarm an hour before
DefaultAlarms == <<DisplayAlarm(timedelta_hours(-1))>>

\* the description with CLASS_TYPES[class_type] defaulting to the first label
Description_FirstLabel(desc, class_type) ==
  IF "enum" \in DOMAIN class_type
  THEN desc \o <<"\n">> \o ClassTypeValue(class_type.enum)
  ELSE desc \o <<"\n">> \o CLASS_TYPES_get(class_type.int, CLASS_TYPES[0])

\* lines 88-91: the description
Description(desc, class_type) ==
  IF "enum" \in DOMAIN class_type
  THEN desc \o <<"\n">> \o ClassTypeValue(class_type.enum)
  ELSE desc \o <<"\n">> \o CLASS_TYPES_get(class_type.int, <<>>)

\* the alarms with `alarms if alarms else ...`: an empty list replaced too
Alarms_Truthy(alarms) == IF alarms # None /\ Val(alarms) # <<>> THEN Val(alarms) ELSE DefaultAlarms

\* lines 94-96: the alarms
Alarms(alarms) == IF alarms # None THEN Val(alarms) ELSE DefaultAlarms

\* the time span with the end set before the duration, which then removes it
TimeSpan_EndFirst(e, end_time, all_day, duration) ==
  LET r0 == IF end_time # None THEN set_end(e, Val(end_time)) ELSE Return(e)
  IN  IF r0.raised THEN r0
      ELSE IF ~all_day THEN Return(set_duration(r0.value, timedelta_hours(duration)))
      ELSE Return(make_all_day(r0.value))

\* lines 79-86: the time span
TimeSpan(e, end_time, all_day, duration) ==
  LET e1 == IF ~all_day THEN set_duration(e, timedelta_hours(duration)) ELSE make_all_day(e)
  IN  IF end_time # None THEN set_end(e1, Val(end_time)) ELSE Return(e1)

\* gen_event, with the uid the new Event() gets; the result is the event
\* returned or the exception raised
gen_event(uid, name, desc, start_time, end_time, all_day, duration, location, class_type, alarms) ==
  LET e0 == [Event(uid) EXCEPT !.name = name]
      r1 == set_begin(e0, start_time)
      r2 == IF r1.raised THEN r1 ELSE TimeSpan(r1.value, end_time, all_day, duration)
  IN  IF r2.raised THEN r2
      ELSE Return([r2.value EXCEPT !.description = Description(desc, class_type),
                                   !.location = location,
                                   !.url = URL,
                                   !.alarms = Alarms(alarms)])

\* an argument passed by keyword, or the parameter's default
Arg(kw, param, default) == IF param \in DOMAIN kw THEN kw[param] ELSE default

\* gen_event(**kw) with the defaults of its signature (lines 65-75)
gen_event_kw(uid, kw) ==
  gen_event(uid, kw.name, kw.desc, kw.start_time,
            Arg(kw, "end_time", None),
            Arg(kw, "all_day", FALSE),
            Arg(kw, "duration", 3),
            Arg(kw, "location", MainWing),
            Arg(kw, "class_type", [enum |-> "LEC"]),
            Arg(kw, "alarms", None))

\* a set whose members are equal when their names are
events_add_ByName(events, e) == IF \E x \in events : x.name = e.name THEN events ELSE events \cup {e}

\* Calendar.events.add: a set whose members are equal when their uids are
events_add(events, e) == IF \E x \in events : x.uid = e.uid THEN events ELSE events \cup {e}

---------------------------------------------------------------------------
\* The tables of event-construction calls, one per course function, in source order

\* gen_holidays with the Midterm Break entered as starting on the 8th, not the 18th
gen_holidays_MidtermFromThe8th ==
  <<
    [name |-> <<"M","i","d","t","e","r","m"," ","B","r","e","a","k">>, desc |-> <<>>, start_time |-> arrow_get(2023, 12, 8, 0, 0), end_time |-> Some(arrow_get(2023, 12, 22, 0, 0)), all_day |-> TRUE],
    [name |-> <<"P","H"," ","C","h","r","i","s","t","m","a","s"," ","B","r","e","a","k">>, desc |-> <<>>, start_time |-> arrow_get(2023, 12, 26, 0, 0), end_time |-> Some(arrow_get(2023, 12, 30, 0, 0)), all_day |-> TRUE],
    [name |-> <<"S","t","u","d","y"," ","B","r","e","a","k">>, desc |-> <<>>, start_time |-> arrow_get(2024, 1, 29, 0, 0), end_time |-> Some(arrow_get(2024, 2, 8, 0, 0)), all_day |-> TRUE],
    [name |-> <<"C","h","i","n","e","s","e"," ","N","e","w"," ","Y","e","a","r"," ","B","r","e","a","k">>, desc |-> <<>>, start_time |-> arrow_get(2024, 2, 12, 0, 0), end_time |-> Some(arrow_get(2024, 2, 16, 0, 0)), all_day |-> TRUE]
  >>

\* gen_mi: lines 100-219
gen_mi ==
  LET CODE == <<"M","I","(","2","0","0","7","M","K",")">>
      l == <<"F","r","a","n","k"," ","B","o","e","y"," ","C","h","o","n","g"," ","K","i","n","g">>
      START_DATE == replace(arrow_get(2023, 7, 24, 0, 0), [hour |-> 15, minute |-> 30])
  IN <<
    [name |-> gen_name(CODE, 1, "LEC"), desc |-> l, start_time |-> replace(START_DATE, [day |-> 25]), class_type |-> [int |-> 1]],
    [name |-> gen_name(CODE, 2, "LEC"), desc |-> l, start_time |-> replace(START_DATE, [day |-> 1, month |-> 8]), class_type |-> [int |-> 1]],
    [name |-> gen_name(CODE, 3, "TUT"), desc |-> l, start_time |-> replace(START_DATE, [day |-> 8, month |-> 8]), class_type |-> [int |-> 2]],
    [name |-> gen_name(CODE, 4, "LEC"), desc |-> l, start_time |-> replace(START_DATE, [day |-> 14, month |-> 8, hour |-> 12, minute |-> 0]), class_type |-> [int |-> 1]],
    [name |-> gen_name(CODE, 5, "TUT"), desc |-> l, start_time |-> replace(START_DATE, [day |-> 15, month |-> 8]), class_type |-> [int |-> 2]],
    [name |-> gen_name(CODE, 6, "LEC"), desc |-> l, start_time |-> replace(START_DATE, [day |-> 21, month |-> 8, hour |-> 12, minute |-> 0]), class_type |-> [int |-> 1]],
    [name |-> gen_name(CODE, 7, "TUT"), desc |-> l, start_time |-> replace(START_DATE, [day |-> 22, month |-> 8]), class_type |-> [int |-> 2]],
    [name |-> gen_name(CODE, 8, "LEC"), desc |-> l, start_time |-> replace(START_DATE, [day |-> 29, month |-> 8]), class_type |-> [int |-> 1]],
    [name |-> gen_name(CODE, 9, "TUT"), desc |-> l, start_time |-> replace(START_DATE, [day |-> 5, month |-> 9]), class_type |-> [int |-> 2]],
    [name |-> gen_name(CODE, 10, "LEC"), desc |-> l, start_time |-> replace(START_DATE, [day |-> 12, month |-> 9]), class_type |-> [int |-> 1]],
    [name |-> gen_name(CODE, 11, "TUT"), desc |-> l, start_time |-> replace(START_DATE, [day |-> 19, month |-> 9]), class_type |-> [int |-> 2]],
    [name |-> gen_name(CODE, 12, "LEC"), desc |-> l, start_time |-> replace(START_DATE, [day |-> 26, month |-> 9]), class_type |-> [int |-> 1]],
    [name |-> gen_name(CODE, 13, "TUT"), desc |-> l, start_time |-> replace(START_DATE, [day |-> 3, month |-> 10]), class_type |-> [int |-> 2]],
    [name |-> gen_name(CODE, 14, "LEC"), desc |-> l, start_time |-> replace(START_DATE, [day |-> 10, month |-> 10]), class_type |-> [int |-> 1]]
  >>

\* gen_mlm: lines 222-340
gen_mlm ==
  LET CODE == <<"M","L","M","(","2","0","0","0","H","R",")">>
      l == <<"S","a","l","i","t","h","a"," ","N","a","i","r">>
      START_DATE == replace(arrow_get(2023, 7, 28, 0, 0), [hour |-> 12])
  IN <<
    [name |-> gen_name(CODE, 1, "LEC"), desc |-> l, start_time |-> START_DATE, class_type |-> [int |-> 1]],
    [name |-> gen_name(CODE, 2, "LEC"), desc |-> l, start_time |-> replace(START_DATE, [day |-> 2, month |-> 8]), class_type |-> [int |-> 1]],
    [name |-> gen_name(CODE, 3, "LEC"), desc |-> l, start_time |-> replace(START_DATE, [day |-> 11, month |-> 8]), class_type |-> [int |-> 2]],
    [name |-> gen_name(CODE, 4, "LEC"), desc |-> l, start_time |-> replace(START_DATE, [day |-> 16, month |-> 8, hour |-> 12, minute |-> 0]), class_type |-> [int |-> 1]],
    [name |-> gen_name(CODE, 5, "LEC"), desc |-> l, start_time |-> replace(START_DATE, [day |-> 23, month |-> 8]), class_type |-> [int |-> 2]],
    [name |-> gen_name(CODE, 6, "LEC"), desc |-> l, start_time |-> replace(START_DATE, [day |-> 28, month |-> 8, hour |-> 12, minute |-> 0]), class_type |-> [int |-> 1]],
    [name |-> gen_name(CODE, 7, "TUT"), desc |-> l, start_time |-> replace(START_DATE, [day |-> 30, month |-> 8]), class_type |-> [int |-> 2]],
    [name |-> gen_name(CODE, 8, "LEC"), desc |-> l, start_time |-> replace(START_DATE, [day |-> 6, month |-> 9]), class_type |-> [int |-> 1]],
    [name |-> gen_name(CODE, 9, "TUT"), desc |-> l, start_time |-> replace(START_DATE, [day |-> 8, month |-> 9]), class_type |-> [int |-> 2]],
    [name |-> gen_name(CODE, 10, "LEC"), desc |-> l, start_time |-> replace(START_DATE, [day |-> 13, month |-> 9]), class_type |-> [int |-> 1]],
    [name |-> gen_name(CODE, 11, "TUT"), desc |-> l, start_time |-> replace(START_DATE, [day |-> 20, month |-> 9]), class_type |-> [int |-> 2]],
    [name |-> gen_name(CODE, 12, "LEC"), desc |-> l, start_time |-> replace(START_DATE, [day |-> 27, month |-> 9]), class_type |-> [int |-> 1]],
    [name |-> gen_name(CODE, 13, "TUT"), desc |-> l, start_time |-> replace(START_DATE, [day |-> 4, month |-> 10]), class_type |-> [int |-> 2]],
    [name |-> gen_name(CODE, 14, "LEC"), desc |-> l, start_time |-> replace(START_DATE, [day |-> 11, month |-> 10]), class_type |-> [int |-> 1]]
  >>

\* gen_db: lines 343-460
gen_db ==
  LET CODE == <<"D","B","(","2","0","0","9","M","K",")">>
      l == <<"C","h","e","n","g"," ","B","i","q","i","n","g"," ","C","h","r","i","s","t","o","p","h","e","r">>
      START_DATE == replace(arrow_get(2023, 7, 27, 0, 0), [hour |-> 15, minute |-> 30])
  IN <<
    [name |-> gen_name(CODE, 1, "LEC"), desc |-> l, start_time |-> START_DATE, class_type |-> [int |-> 1]],
    [name |-> gen_name(CODE, 2, "LEC"), desc |-> l, start_time |-> replace(START_DATE, [day |-> 3, month |-> 8]), class_type |-> [int |-> 1]],
    [name |-> gen_name(CODE, 3, "TUT"), desc |-> l, start_time |-> replace(START_DATE, [day |-> 7, month |-> 8, hour |-> 12, minute |-> 0]), class_type |-> [int |-> 2]],
    [name |-> gen_name(CODE, 4, "LEC"), desc |-> l, start_time |-> replace(START_DATE, [day |-> 10, month |-> 8]), class_type |-> [int |-> 1]],
    [name |-> gen_name(CODE, 5, "TUT"), desc |-> l, start_time |-> replace(START_DATE, [day |-> 17, month |-> 8]), class_type |-> [int |-> 2]],
    [name |-> gen_name(CODE, 6, "LEC"), desc |-> l, start_time |-> replace(START_DATE, [day |-> 24, month |-> 8]), class_type |-> [int |-> 1]],
    [name |-> gen_name(CODE, 7, "TUT"), desc |-> l, start_time |-> replace(START_DATE, [day |-> 31, month |-> 8]), class_type |-> [int |-> 2]],
    [name |-> gen_name(CODE, 8, "LEC"), desc |-> l, start_time |-> replace(START_DATE, [day |-> 4, month |-> 9, hour |-> 12, minute |-> 0]), class_type |-> [int |-> 1]],
    [name |-> gen_name(CODE, 9, "TUT"), desc |-> l, start_time |-> replace(START_DATE, [day |-> 7, month |-> 9]), class_type |-> [int |-> 2]],
    [name |-> gen_name(CODE, 10, "LEC"), desc |-> l, start_time |-> replace(START_DATE, [day |-> 14, month |-> 9]), class_type |-> [int |-> 1]],
    [name |-> gen_name(CODE, 11, "TUT"), desc |-> l, start_time |-> replace(START_DATE, [day |-> 21, month |-> 9]), class_type |-> [int |-> 2]],
    [name |-> gen_name(CODE, 12, "LEC"), desc |-> l, start_time |-> replace(START_DATE, [day |-> 28, month |-> 9]), class_type |-> [int |-> 1]],
    [name |-> gen_name(CODE, 13, "TUT"), desc |-> l, start_time |-> replace(START_DATE, [day |-> 5, month |-> 10]), class_type |-> [int |-> 2]],
    [name |-> gen_name(CODE, 14, "LEC"), desc |-> l, start_time |-> replace(START_DATE, [day |-> 12, month |-> 10]), class_type |-> [int |-> 1]]
  >>

\* gen_mm: lines 463-604
gen_mm ==
  LET CODE == <<"M","M","(","5","0","1","0","M","K","T",")">>
      l == <<"N","g"," ","S","i","a","h"," ","H","e","n","g">>
      START_DATE == replace(arrow_get(2023, 11, 20, 0, 0), [hour |-> 12])
      dec == arrow_get(2023, 12, 1, 0, 0)
      jan == arrow_get(2024, 1, 1, 0, 0)
  IN <<
    [name |-> gen_name(CODE, 1, "LEC"), desc |-> l, start_time |-> START_DATE, class_type |-> [enum |-> "LEC"]],
    [name |-> gen_name(CODE, 2, "LEC"), desc |-> l, start_time |-> replace(START_DATE, [day |-> 24, hour |-> 8, minute |-> 30]), class_type |-> [enum |-> "LEC"]],
    [name |-> gen_name(CODE, 3, "TUT"), desc |-> l, start_time |-> replace(START_DATE, [day |-> 27, hour |-> 15, minute |-> 30]), class_type |-> [enum |-> "TUT"]],
    [name |-> gen_name(CODE, 4, "LEC"), desc |-> l, start_time |-> replace(dec, [day |-> 1, hour |-> 8, minute |-> 30]), class_type |-> [enum |-> "LEC"]],
    [name |-> gen_name(CODE, 5, "TUT"), desc |-> l, start_time |-> replace(dec, [day |-> 4, hour |-> 15, minute |-> 30]), class_type |-> [enum |-> "TUT"]],
    [name |-> gen_name(CODE, 6, "LEC"), desc |-> l, start_time |-> replace(dec, [day |-> 11, hour |-> 15, minute |-> 30]), class_type |-> [enum |-> "LEC"]],
    [name |-> gen_name(CODE, 7, "TUT"), desc |-> l, start_time |-> replace(dec, [day |-> 14, hour |-> 12]), class_type |-> [enum |-> "TUT"]],
    [name |-> gen_name(CODE, 8, "LEC"), desc |-> l, start_time |-> replace(jan, [day |-> 4, hour |-> 12]), class_type |-> [enum |-> "LEC"]],
    [name |-> gen_name(CODE, 9, "TUT"), desc |-> l, start_time |-> replace(jan, [day |-> 5, hour |-> 12]), class_type |-> [enum |-> "TUT"], location |-> <<"S","t","e","m"," ","W","I","n","g">>],
    [name |-> gen_name(CODE, 10, "LEC"), desc |-> l, start_time |-> replace(jan, [day |-> 8, hour |-> 15, minute |-> 30]), class_type |-> [enum |-> "LEC"]],
    [name |-> gen_name(CODE, 11, "TUT"), desc |-> l, start_time |-> replace(jan, [day |-> 15, hour |-> 15, minute |-> 30]), class_type |-> [enum |-> "TUT"]],
    [name |-> gen_name(CODE, 12, "LEC"), desc |-> l, start_time |-> replace(jan, [day |-> 18, hour |-> 8, minute |-> 30]), class_type |-> [enum |-> "LEC"]],
    [name |-> gen_name(CODE, 13, "TUT"), desc |-> l, start_time |-> replace(jan, [day |-> 22, hour |-> 15, minute |-> 30]), class_type |-> [enum |-> "TUT"], location |-> <<"S","t","e","m"," ","W","i","n","g">>],
    [name |-> gen_name(CODE, 14, "LEC"), desc |-> l, start_time |-> replace(jan, [day |-> 26, hour |-> 15, minute |-> 30]), class_type |-> [enum |-> "LEC"]],
    [name |-> gen_name(CODE, 13, "TUT"), desc |-> l, start_time |-> replace(jan, [day |-> 22, hour |-> 15, minute |-> 30]), class_type |-> [enum |-> "TUT"]]
  >>

\* gen_ecs2: lines 607-690
gen_ecs2 ==
  LET CODE == <<"E","C","S","2","(","A","2","0","1","C","S",")">>
      l == <<"V","i","c","t","o","r"," ","O","n","g">>
      START_DATE == arrow_get(2023, 11, 22, 15, 30)
      d == arrow_get(2023, 12, 1, 0, 0)
  IN <<
    [name |-> gen_name(CODE, 1, "LEC"), desc |-> l, start_time |-> START_DATE, class_type |-> [enum |-> "LEC"]],
    [name |-> gen_name(CODE, 2, "LEC"), desc |-> l, start_time |-> replace(START_DATE, [day |-> 29, hour |-> 15]), class_type |-> [enum |-> "LEC"]],
    [name |-> gen_name(CODE, 3, "TUT"), desc |-> l, start_time |-> replace(START_DATE, [day |-> 30, hour |-> 8, minute |-> 30]), class_type |-> [enum |-> "TUT"], location |-> <<"S","t","e","m"," ","W","i","n","g">>],
    [name |-> gen_name(CODE, 4, "LEC"), desc |-> l, start_time |-> replace(d, [day |-> 6, hour |-> 15, minute |-> 30]), class_type |-> [enum |-> "LEC"]],
    [name |-> gen_name(CODE, 5, "LEC"), desc |-> l, start_time |-> replace(d, [day |-> 7, hour |-> 15, minute |-> 30]), class_type |-> [enum |-> "LEC"]],
    [name |-> gen_name(CODE, 6, "LEC"), desc |-> l, start_time |-> replace(d, [day |-> 8, hour |-> 15, minute |-> 30]), class_type |-> [enum |-> "LEC"]],
    [name |-> gen_name(CODE, 7, "TUT"), desc |-> l, start_time |-> replace(d, [day |-> 15, hour |-> 15, minute |-> 30]), class_type |-> [enum |-> "TUT"]],
    [name |-> <<"E","f","f","e","c","t","i","v","e"," ","C","o","m","m","u","n","i","c","a","t","i","o","n"," ","S","k","i","l","l","s"," ","2"," ","C","W"," ","D","u","e">>, desc |-> <<>>, location |-> <<>>, start_time |-> arrow_get(2023, 12, 13, 0, 0), all_day |-> TRUE, alarms |-> Some(<<DisplayAlarm(timedelta_days(-7)), DisplayAlarm(timedelta_days(-3)), DisplayAlarm(timedelta_days(-1))>>)]
  >>

\* gen_cb: lines 693-850
gen_cb ==
  LET CODE == <<"C","B","(","5","0","0","6","M","K","T",")">>
      l == <<"S"," ","S","a","l","i","t","h","a"," ","N","a","i","r"," ","D","/","O"," ","M"," ","S","u","b","r","a","m","a","n","i","a","m">>
      START_DATE == arrow_get(2023, 11, 21, 0, 0)
      d == arrow_get(2023, 12, 1, 0, 0)
      jan == arrow_get(2024, 1, 1, 0, 0)
      feb == arrow_get(2024, 2, 1, 0, 0)
  IN <<
    [name |-> gen_name(CODE, 1, "LEC"), desc |-> l, start_time |-> replace(START_DATE, [hour |-> 12]), class_type |-> [enum |-> "LEC"]],
    [name |-> gen_name(CODE, 2, "LEC"), desc |-> l, start_time |-> replace(START_DATE, [day |-> 23, hour |-> 12]), class_type |-> [enum |-> "LEC"]],
    [name |-> gen_name(CODE, 3, "TUT"), desc |-> l, start_time |-> replace(START_DATE, [day |-> 28, hour |-> 12]), class_type |-> [enum |-> "TUT"]],
    [name |-> gen_name(CODE, 4, "LEC"), desc |-> l, start_time |-> replace(d, [day |-> 1, hour |-> 12]), class_type |-> [enum |-> "LEC"]],
    [name |-> gen_name(CODE, 5, "TUT"), desc |-> l, start_time |-> replace(d, [day |-> 5, hour |-> 12]), class_type |-> [enum |-> "TUT"]],
    [name |-> gen_name(CODE, 6, "LEC"), desc |-> l, start_time |-> replace(START_DATE, [day |-> 12, hour |-> 12]), class_type |-> [enum |-> "LEC"]],
    [name |-> gen_name(CODE, 7, "TUT"), desc |-> l, start_time |-> replace(START_DATE, [day |-> 13, hour |-> 15, minute |-> 30]), class_type |-> [enum |-> "TUT"]],
    [name |-> gen_name(CODE, 8, "LEC"), desc |-> l, start_time |-> replace(jan, [day |-> 9, hour |-> 12]), class_type |-> [enum |-> "LEC"]],
    [name |-> gen_name(CODE, 9, "TUT"), desc |-> l, start_time |-> replace(jan, [day |-> 12, hour |-> 12]), class_type |-> [enum |-> "TUT"]],
    [name |-> gen_name(CODE, 10, "LEC"), desc |-> l, start_time |-> replace(jan, [day |-> 16, hour |-> 12]), class_type |-> [enum |-> "LEC"]],
    [name |-> gen_name(CODE, 11, "TUT"), desc |-> l, start_time |-> replace(jan, [day |-> 23, hour |-> 12]), class_type |-> [enum |-> "TUT"]],
    [name |-> gen_name(CODE, 12, "LEC"), desc |-> l, start_time |-> replace(jan, [day |-> 25, hour |-> 12]), class_type |-> [enum |-> "LEC"]],
    [name |-> gen_name(CODE, 13, "TUT"), desc |-> l, start_time |-> replace(feb, [day |-> 19, hour |-> 15, minute |-> 30]), class_type |-> [enum |-> "TUT"]],
    [name |-> gen_name(CODE, 14, "LEC"), desc |-> l, start_time |-> replace(feb, [day |-> 20, hour |-> 12]), class_type |-> [enum |-> "LEC"]],
    [name |-> <<"C","o","n","s","u","m","e","r"," ","B","e","h","a","v","i","o","u","r"," ","C","W"," ","D","u","e">>, desc |-> <<>>, location |-> <<>>, start_time |-> arrow_get(2024, 1, 11, 0, 0), all_day |-> TRUE, alarms |-> Some(<<DisplayAlarm(timedelta_days(-7)), DisplayAlarm(timedelta_days(-3)), DisplayAlarm(timedelta_days(-1))>>)],
    [name |-> <<"C","o","n","s","u","m","e","r"," ","B","e","h","a","v","i","o","u","r"," ","E","x","a","m">>, desc |-> <<>>, location |-> <<>>, start_time |-> arrow_get(2024, 2, 29, 14, 0), alarms |-> Some(<<DisplayAlarm(timedelta_days(-7)), DisplayAlarm(timedelta_days(-3)), DisplayAlarm(timedelta_days(-1)), DisplayAlarm(timedelta_hours(-3))>>)]
  >>

\* gen_cp: lines 853-929
gen_cp ==
  LET CODE == <<"C","P","(","5","0","0","5","M","K","T",")">>
      l == <<"V","i","c","t","o","r"," ","O","n","g">>
      jan == arrow_get(2024, 1, 1, 0, 0)
  IN <<
    [name |-> gen_name(CODE, 1, "LEC"), desc |-> l, start_time |-> replace(jan, [day |-> 2, hour |-> 15, minute |-> 30]), class_type |-> [enum |-> "LEC"]],
    [name |-> gen_name(CODE, 2, "LEC"), desc |-> l, start_time |-> replace(jan, [day |-> 3, hour |-> 15, minute |-> 30]), class_type |-> [enum |-> "LEC"]],
    [name |-> gen_name(CODE, 3, "TUT"), desc |-> l, start_time |-> replace(jan, [day |-> 10, hour |-> 12]), class_type |-> [enum |-> "TUT"]],
    [name |-> gen_name(CODE, 4, "LEC"), desc |-> l, start_time |-> replace(jan, [day |-> 11, hour |-> 12]), class_type |-> [enum |-> "LEC"]],
    [name |-> gen_name(CODE, 5, "LEC"), desc |-> l, start_time |-> replace(jan, [day |-> 17, hour |-> 15, minute |-> 30]), class_type |-> [enum |-> "LEC"]],
    [name |-> gen_name(CODE, 6, "TUT"), desc |-> l, start_time |-> replace(jan, [day |-> 19, hour |-> 12]), class_type |-> [enum |-> "TUT"], location |-> <<"S","t","e","m"," ","W","i","n","g">>],
    [name |-> gen_name(CODE, 7, "LEC"), desc |-> l, start_time |-> replace(jan, [day |-> 24, hour |-> 15, minute |-> 30]), class_type |-> [enum |-> "LEC"]],
    [name |-> <<"C","a","r","e","e","r"," ","P","r","e","p","a","r","a","t","i","o","n"," ","C","W"," ","D","u","e">>, desc |-> <<>>, location |-> <<>>, start_time |-> arrow_get(2024, 1, 24, 0, 0), all_day |-> TRUE, alarms |-> Some(<<DisplayAlarm(timedelta_days(-7)), DisplayAlarm(timedelta_days(-3)), DisplayAlarm(timedelta_days(-1))>>)]
  >>

\* gen_duedates: lines 933-1004
gen_duedates ==
  <<
    [name |-> <<"M","a","r","k","e","t","i","n","g"," ","I","n","s","i","g","h","t"," ","C","W","1"," ","D","u","e">>, desc |-> <<>>, location |-> <<>>, start_time |-> arrow_get(2023, 8, 29, 0, 0), all_day |-> TRUE, alarms |-> Some(<<DisplayAlarm(timedelta_days(-7)), DisplayAlarm(timedelta_days(-3)), DisplayAlarm(timedelta_days(-1))>>)],
    [name |-> <<"M","a","r","k","e","t","i","n","g"," ","I","n","s","i","g","h","t"," ","C","W","2"," ","D","u","e">>, desc |-> <<>>, location |-> <<>>, start_time |-> arrow_get(2023, 10, 15, 0, 0), all_day |-> TRUE, alarms |-> Some(<<DisplayAlarm(timedelta_days(-7)), DisplayAlarm(timedelta_days(-3)), DisplayAlarm(timedelta_days(-1))>>)],
    [name |-> <<"M","a","n","a","g","e","m","e","n","t"," ","a","n","d"," ","L","e","a","d","e","r","s","h","i","p"," ","i","n"," ","M","a","r","k","e","t","i","n","g"," ","C","W"," ","D","u","e">>, desc |-> <<>>, location |-> <<>>, start_time |-> arrow_get(2023, 10, 12, 0, 0), all_day |-> TRUE, alarms |-> Some(<<DisplayAlarm(timedelta_days(-7)), DisplayAlarm(timedelta_days(-3)), DisplayAlarm(timedelta_days(-1))>>)],
    [name |-> <<"D","i","g","i","t","a","l"," ","B","u","s","i","n","e","s","s"," ","C","W","1"," ","D","u","e">>, desc |-> <<>>, location |-> <<>>, start_time |-> arrow_get(2023, 9, 12, 0, 0), all_day |-> TRUE, alarms |-> Some(<<DisplayAlarm(timedelta_days(-7)), DisplayAlarm(timedelta_days(-3)), DisplayAlarm(timedelta_days(-1))>>)],
    [name |-> <<"D","i","g","i","t","a","l"," ","B","u","s","i","n","e","s","s"," ","C","W","2"," ","D","u","e">>, desc |-> <<>>, location |-> <<>>, start_time |-> arrow_get(2023, 10, 4, 0, 0), all_day |-> TRUE, alarms |-> Some(<<DisplayAlarm(timedelta_days(-7)), DisplayAlarm(timedelta_days(-3)), DisplayAlarm(timedelta_days(-1))>>)]
  >>

\* gen_workshops: lines 1006-1034
gen_workshops ==
  LET START_DATE == replace(arrow_get(2023, 7, 24, 0, 0), [hour |-> 15, minute |-> 30])
  IN <<
    [name |-> <<"C","U"," ","R","e","f","e","r","e","n","c","i","n","g"," ","W","o","r","k","s","h","o","p">>, desc |-> <<"D","r"," ","N","g"," ","J","i","a"," ","Y","u","n"," ","F","l","o","r","e","n","c","e">>, start_time |-> START_DATE, duration |-> 3],
    [name |-> <<"G","N","e","t">>, desc |-> <<>>, start_time |-> replace(START_DATE, [day |-> 31, month |-> 7, hour |-> 10, minute |-> 0]), duration |-> 2],
    [name |-> <<"M","a","r","k","e","t","i","n","g"," ","I","n","t","e","n","s","i","v","e"," ","W","o","r","k","s","h","o","p">>, desc |-> <<"D","r"," ","L","i","o","w"," ","L","i"," ","S","a"," ","M","e","l","i","s","s","a">>, start_time |-> replace(START_DATE, [day |-> 12, month |-> 8, hour |-> 9, minute |-> 0]), duration |-> 9]
  >>

\* gen_holidays: lines 1046-1085
gen_holidays ==
  <<
    [name |-> <<"M","i","d","t","e","r","m"," ","B","r","e","a","k">>, desc |-> <<>>, start_time |-> arrow_get(2023, 12, 18, 0, 0), end_time |-> Some(arrow_get(2023, 12, 22, 0, 0)), all_day |-> TRUE],
    [name |-> <<"P","H"," ","C","h","r","i","s","t","m","a","s"," ","B","r","e","a","k">>, desc |-> <<>>, start_time |-> arrow_get(2023, 12, 26, 0, 0), end_time |-> Some(arrow_get(2023, 12, 30, 0, 0)), all_day |-> TRUE],
    [name |-> <<"S","t","u","d","y"," ","B","r","e","a","k">>, desc |-> <<>>, start_time |-> arrow_get(2024, 1, 29, 0, 0), end_time |-> Some(arrow_get(2024, 2, 8, 0, 0)), all_day |-> TRUE],
    [name |-> <<"C","h","i","n","e","s","e"," ","N","e","w"," ","Y","e","a","r"," ","B","r","e","a","k">>, desc |-> <<>>, start_time |-> arrow_get(2024, 2, 12, 0, 0), end_time |-> Some(arrow_get(2024, 2, 16, 0, 0)), all_day |-> TRUE]
  >>


---------------------------------------------------------------------------
\* The builders and the main program

\* gen_second_sem without its call of gen_holidays
gen_second_sem_NoHolidays == <<"gen_mm", "gen_ecs2", "gen_cb", "gen_cp">>

\* gen_second_sem: the course functions it calls on the one Calendar c, in order
gen_second_sem == <<"gen_mm", "gen_ecs2", "gen_cb", "gen_cp", "gen_holidays">>

\* gen_first_sem: the course functions it calls on the one Calendar c, in order
gen_first_sem == <<"gen_workshops", "gen_mi", "gen_mlm", "gen_db", "gen_duedates">>

\* the c.events.add statements of a course function
Body(fn) ==
  CASE fn = "gen_mm" -> gen_mm
    [] fn = "gen_ecs2" -> gen_ecs2
    [] fn = "gen_cb" -> gen_cb
    [] fn = "gen_cp" -> gen_cp
    [] fn = "gen_holidays" -> gen_holidays
    [] fn = "gen_workshops" -> gen_workshops
    [] fn = "gen_mi" -> gen_mi
    [] fn = "gen_mlm" -> gen_mlm
    [] fn = "gen_db" -> gen_db
    [] fn = "gen_duedates" -> gen_duedates

\* __main__ with the file opened before the calendar is built
main_OpenFirst == <<"open", "gen_second_sem", "writelines", "close">>

\* __main__ with the with block run twice
main_WriteTwice == <<"gen_second_sem", "open", "writelines", "close", "open", "writelines", "close">>

\* __main__: c = gen_second_sem(); with open("psb.ics", "w") as f: f.writelines(c.serialize_iter())
main == <<"gen_second_sem", "open", "writelines", "close">>

\* the statements of the entry point
Steps(r) == IF r = "main" THEN main ELSE <<"gen_first_sem">>

\* the statement in progress
Step == IF pc \in 1..Len(Steps(run)) THEN Steps(run)[pc] ELSE "exit"

\* the builder a statement calls
Builder(step) == IF step = "gen_second_sem" THEN gen_second_sem ELSE gen_first_sem

InBuild == status = "running" /\ Step \in {"gen_second_sem", "gen_first_sem"}

\* the number of add statements of the first n course functions of a builder
RECURSIVE CallsBefore(_, _)
CallsBefore(B, n) == IF n = 0 THEN 0 ELSE CallsBefore(B, n - 1) + Len(Body(B[n]))

\* the number of add statements of a builder
NCalls(B) == CallsBefore(B, Len(B))

\* a date of February 30th: arrow raises ValueError on it
NoSuchDay(t) == [t EXCEPT !.month = 2, !.day = 30]

\* the arguments of the add statement about to run: those of the source, unless
\* the run is one in which this statement's date was supplied wrong
Supplied(kw) ==
  IF fault = CallsBefore(Builder(Step), fi - 1) + k + 1
  THEN [kw EXCEPT !.start_time = NoSuchDay(@)]
  ELSE kw

\* one VEVENT of the serialized calendar
VEvent(e) ==
  [UID |-> e.uid, SUMMARY |-> e.name, DTSTART |-> e.begin, ALLDAY |-> all_day_of(e),
   DTEND |-> end_of(e), DESCRIPTION |-> e.description, LOCATION |-> e.location,
   URL |-> e.url, VALARM |-> e.alarms]

\* c.serialize_iter(): the text of the calendar, as the set of its VEVENTs
\* (the order of the events of a set is not fixed)
serialize(c) == {VEvent(e) : e \in c}

Absent == [exists |-> FALSE, vevents |-> {}]

\* a psb.ics left by an earlier run
OldFile == [exists |-> TRUE, vevents |-> {[UID |-> 0, SUMMARY |-> <<"o","l","d">>]}]

\* open(path, "w") creates or truncates the file
Truncated == [exists |-> TRUE, vevents |-> {}]

---------------------------------------------------------------------------
\* Actions

\* one c.events.add(gen_event(...)) statement: the dates are built, then the
\* event, then it is added; an exception raised on the way ends the run
AddEvent ==
  /\ InBuild
  /\ fi <= Len(Builder(Step))
  /\ k < Len(Body(Builder(Step)[fi]))
  /\ \E kw \in {Supplied(Body(Builder(Step)[fi])[k + 1])} :
       \E r \in {IF \E t \in {kw.start_time} \cup Arg(kw, "end_time", None) : ~ValidDate(t)
                 THEN Raise("ValueError")
                 ELSE gen_event_kw(ncalls + 1, kw)} :
         IF r.raised
         THEN /\ status' = "failed"
              /\ error' = r.exc
              /\ UNCHANGED <<cal, k, ncalls>>
         ELSE /\ cal' = events_add(cal, r.value)
              /\ k' = k + 1
              /\ ncalls' = ncalls + 1
              /\ UNCHANGED <<status, error>>
  /\ UNCHANGED <<run, pc, fi, file, fileBefore, writable, fopen, nopen, nwrite, returned,
                 fault, args, ret>>

\* a course function returns: the builder calls the next one
ReturnFn ==
  /\ InBuild
  /\ fi <= Len(Builder(Step))
  /\ k = Len(Body(Builder(Step)[fi]))
  /\ fi' = fi + 1
  /\ k' = 0
  /\ returned' = Append(returned, Builder(Step)[fi])
  /\ UNCHANGED <<run, pc, cal, ncalls, file, fileBefore, writable, fopen, nopen, nwrite,
                 status, error, fault, args, ret>>

\* return c: the builder returns the calendar
ReturnCalendar ==
  /\ InBuild
  /\ fi = Len(Builder(Step)) + 1
  /\ pc' = pc + 1
  /\ fi' = 1
  /\ k' = 0
  /\ UNCHANGED <<run, cal, ncalls, file, fileBefore, writable, fopen, nopen, nwrite,
                 status, error, fault, args, ret>>
  /\ UNCHANGED returned

\* open("psb.ics", "w") succeeds: the file is created or truncated
OpenFile ==
  /\ status = "running"
  /\ Step = "open"
  /\ writable
  /\ file' = Truncated
  /\ fopen' = TRUE
  /\ nopen' = nopen + 1
  /\ pc' = pc + 1
  /\ UNCHANGED <<run, fi, k, cal, ncalls, fileBefore, writable, nwrite, status, error,
                 fault, args, ret>>
  /\ UNCHANGED returned

\* open("psb.ics", "w") raises: the path is not writable
OpenFails ==
  /\ status = "running"
  /\ Step = "open"
  /\ ~writable
  /\ status' = "failed"
  /\ error' = "OSError"
  /\ UNCHANGED <<run, pc, fi, k, cal, ncalls, file, fileBefore, writable, fopen, nopen,
                 nwrite, fault, args, ret>>
  /\ UNCHANGED returned

\* f.writelines(c.serialize_iter())
WriteLines ==
  /\ status = "running"
  /\ Step = "writelines"
  /\ fopen
  /\ file' = [file EXCEPT !.vevents = @ \cup serialize(cal)]
  /\ nwrite' = nwrite + 1
  /\ pc' = pc + 1
  /\ UNCHANGED <<run, fi, k, cal, ncalls, fileBefore, writable, fopen, nopen, status,
                 error, fault, args, ret>>
  /\ UNCHANGED returned

\* the end of the with block closes f
CloseFile ==
  /\ status = "running"
  /\ Step = "close"
  /\ fopen' = FALSE
  /\ pc' = pc + 1
  /\ UNCHANGED <<run, fi, k, cal, ncalls, file, fileBefore, writable, nopen, nwrite,
                 status, error, fault, args, ret>>
  /\ UNCHANGED returned

\* the last statement is done: the run ends
Exit ==
  /\ status = "running"
  /\ run \in {"main", "first_sem"}
  /\ Step = "exit"
  /\ status' = "done"
  /\ UNCHANGED <<run, pc, fi, k, cal, ncalls, file, fileBefore, writable, fopen, nopen,
                 nwrite, error, fault, args, ret>>
  /\ UNCHANGED returned

\* the state at the start of a run of the program, given the dates supplied
Start(faults) ==
  /\ run \in {"main", "first_sem"}
  /\ pc = 1
  /\ fi = 1
  /\ k = 0
  /\ cal = {}
  /\ ncalls = 0
  /\ fileBefore \in {Absent, OldFile}
  /\ file = fileBefore
  /\ writable \in BOOLEAN
  /\ fopen = FALSE
  /\ nopen = 0
  /\ nwrite = 0
  /\ returned = <<>>
  /\ status = "running"
  /\ error = ""
  /\ fault \in faults
  /\ args = <<>>
  /\ ret = <<>>

Init == Start({0})

Next ==
  \/ AddEvent
  \/ ReturnFn
  \/ ReturnCalendar
  \/ OpenFile
  \/ OpenFails
  \/ WriteLines
  \/ CloseFile
  \/ Exit

\* the program as it is
Spec == Init /\ [][Next]_vars

\* the program with at most one date supplied wrong
InitFault == Start(0..NCalls(gen_second_sem))

SpecFault == InitFault /\ [][Next]_vars

\* the same, running on: a sequential program takes its next step while it has one
FairSpecFault == SpecFault /\ WF_vars(Next)

---------------------------------------------------------------------------
\* One call of a helper, gen_name or gen_event, on arguments of its signature

MaxIdx == 100

MaxDuration == 3

MaxClassInt == 3

\* course codes: three of the program's, and short ones around the two prefixes tested
Codes == {<<"M","I","(","2","0","0","7","M","K",")">>, <<"E","C","S","2","(","A","2","0","1","C","S",")">>, <<"M","M","(","5","0","1","0","M","K","T",")">>, <<"M","I">>, <<"E","C","S","2">>, <<"E","C","S">>, <<"M">>, <<"X","_">>}

NameArgs == [fn : {"gen_name"}, code : Codes, idx : 0..MaxIdx, ct : ClassType]

\* a keyword argument that is passed (o = Some(value)) or left out (o = None)
Opt(param, o) == [f \in (IF o = None THEN {} ELSE {param}) |-> Val(o)]

StartTimes == {arrow_get(2023, 12, 18, 0, 0), arrow_get(2023, 11, 27, 15, 30)}

EndTimes == {arrow_get(2023, 12, 22, 0, 0), arrow_get(2023, 11, 27, 17, 0), arrow_get(2023, 11, 1, 0, 0)}

AlarmLists ==
  {<<>>, <<DisplayAlarm(timedelta_days(-1))>>,
   <<DisplayAlarm(timedelta_days(-7)), DisplayAlarm(timedelta_hours(-3))>>}

ClassTypeArgs == {[enum |-> m] : m \in ClassType} \cup {[int |-> n] : n \in 0..MaxClassInt}

EventArgs ==
  {[fn |-> "gen_event",
    kw |-> [name |-> n, desc |-> d, start_time |-> st]
           @@ Opt("end_time", et) @@ Opt("all_day", ad) @@ Opt("duration", du)
           @@ Opt("location", lo) @@ Opt("class_type", ct) @@ Opt("alarms", al)] :
     n \in {<<"G","N","e","t">>, <<"M","i","d","t","e","r","m"," ","B","r","e","a","k">>},
     d \in {<<>>, <<"V","i","c","t","o","r"," ","O","n","g">>},
     st \in StartTimes,
     et \in {None} \cup {Some(Some(t)) : t \in EndTimes},
     ad \in {None, Some(TRUE), Some(FALSE)},
     du \in {None} \cup {Some(h) : h \in 0..MaxDuration},
     lo \in {None, Some(<<>>), Some(<<"S","t","e","m"," ","W","i","n","g">>)},
     ct \in {None} \cup {Some(c) : c \in ClassTypeArgs},
     al \in {None, Some(None)} \cup {Some(Some(a)) : a \in AlarmLists}}

CallGenName ==
  /\ run = "call"
  /\ status = "running"
  /\ args.fn = "gen_name"
  /\ ret' = Return(gen_name(args.code, args.idx, args.ct))
  /\ status' = "done"
  /\ UNCHANGED <<run, pc, fi, k, cal, ncalls, file, fileBefore, writable, fopen, nopen,
                 nwrite, returned, error, fault, args>>

CallGenEvent ==
  /\ run = "call"
  /\ status = "running"
  /\ args.fn = "gen_event"
  /\ ret' = gen_event_kw(ncalls + 1, args.kw)
  /\ ncalls' = ncalls + 1
  /\ status' = "done"
  /\ UNCHANGED <<run, pc, fi, k, cal, file, fileBefore, writable, fopen, nopen,
                 nwrite, returned, error, fault, args>>

InitCall ==
  /\ run = "call"
  /\ pc = 1
  /\ fi = 1
  /\ k = 0
  /\ cal = {}
  /\ ncalls = 0
  /\ fileBefore = Absent
  /\ file = fileBefore
  /\ writable = FALSE
  /\ fopen = FALSE
  /\ nopen = 0
  /\ nwrite = 0
  /\ returned = <<>>
  /\ status = "running"
  /\ error = ""
  /\ fault = 0
  /\ args \in NameArgs \cup EventArgs
  /\ ret = <<>>

NextCall == CallGenName \/ CallGenEvent

SpecCall == InitCall /\ [][NextCall]_vars

---------------------------------------------------------------------------
\* The kinds of event, told by the name

\* a class session: a name made by gen_name
IsSession(name) == StartsWith(name, <<"C","U","_","T","R","I","3","2","3","_","F","T","_">>)

IsWorkshop(name) == EndsWith(name, <<"W","o","r","k","s","h","o","p">>) \/ name = <<"G","N","e","t">>

IsDueDate(name) == EndsWith(name, <<" ","C","W"," ","D","u","e">>)

IsBreak(name) == EndsWith(name, <<" ","B","r","e","a","k">>)

\* the names of the events written to psb.ics by this run
Written == {v.SUMMARY : v \in IF nwrite > 0 THEN file.vevents ELSE {}}

---------------------------------------------------------------------------
\* C1: in each calendar built by gen_first_sem and by gen_second_sem no two
\* events have the same session name: every (course, session index) names
\* exactly one event.
C1_SessionNamesUnique ==
  \A e1, e2 \in cal : (IsSession(e1.name) /\ e1.name = e2.name) => e1 = e2

\* C2, as claimed: the calendar written to psb.ics holds at least one class
\* session, one workshop, one coursework due-date and one holiday break.
C2_FourKinds ==
  (run = "main" /\ nwrite > 0) =>
    /\ \E n \in Written : IsSession(n)
    /\ \E n \in Written : IsWorkshop(n)
    /\ \E n \in Written : IsDueDate(n)
    /\ \E n \in Written : IsBreak(n)

\* C2, amended: the calendar written to psb.ics holds at least one class
\* session, one coursework due-date and one holiday break, and no workshop.
C2_ThreeKindsNoWorkshop ==
  (run = "main" /\ nwrite > 0) =>
    /\ \E n \in Written : IsSession(n)
    /\ \E n \in Written : IsDueDate(n)
    /\ \E n \in Written : IsBreak(n)
    /\ \A n \in Written : ~IsWorkshop(n)

C2_Witness == run = "main" /\ status = "done" /\ nwrite = 1 /\ Written # {}

\* C3: every event is added before psb.ics is opened: the file is opened only
\* after gen_mm, gen_ecs2, gen_cb, gen_cp and gen_holidays have returned, and
\* from the opening on no step changes the calendar.
C3_BuiltBeforeWritten ==
  /\ []((run = "main" /\ (nopen > 0 \/ nwrite > 0)) =>
          returned = <<"gen_mm", "gen_ecs2", "gen_cb", "gen_cp", "gen_holidays">>)
  /\ [][(run = "main" /\ (nopen > 0 \/ nopen' > 0)) => cal' = cal]_vars

C3_Witness == run = "main" /\ nopen = 1 /\ nwrite = 1 /\ cal # {} /\ Written # {}

\* the numbers of records C4 claims of the five course functions, and their sums
C4_Counts == <<15, 8, 16, 8, 4>>

RECURSIVE C4_Sum(_)
C4_Sum(i) == IF i = 0 THEN 0 ELSE C4_Sum(i - 1) + C4_Counts[i]

\* C4: every event-construction call of gen_second_sem adds one record to the
\* one calendar; the number of records never decreases; when the i-th course
\* function has returned the calendar holds the records of the first i
\* functions, 15, 8, 16, 8 and 4 of them; the returned calendar holds 51.
C4_OneRecordPerCall ==
  /\ [](run = "main" =>
          /\ Cardinality(cal) = ncalls
          /\ Len(returned) <= 5
          /\ (Step = "gen_second_sem" /\ k = 0 /\ fi = Len(returned) + 1) =>
                Cardinality(cal) = C4_Sum(Len(returned))
          /\ Step # "gen_second_sem" => Cardinality(cal) = 51)
  /\ [][run = "main" =>
          /\ cal \subseteq cal'
          /\ ncalls' = ncalls + 1 => Cardinality(cal') = Cardinality(cal) + 1]_vars

C4_Witness == run = "main" /\ status = "done" /\ Len(returned) = 5 /\ Cardinality(cal) = 51

\* the end of the name that C5 claims
C5_Suffix(code, ct) ==
  CASE ct = "LEC" -> <<"_","L","e","c","/","1">>
    [] ct = "WORKSHOP" -> <<"_","W","o","r","k","s","h","o","p">>
    [] ct = "TUT" /\ StartsWith(code, <<"M","I">>) -> <<"_","T","u","t","_","B">>
    [] ct = "TUT" /\ ~StartsWith(code, <<"M","I">>) /\ StartsWith(code, <<"E","C","S","2">>) -> <<"A"," ","T","u","t"," ","A">>
    [] OTHER -> <<"_","T","u","t","/","1">>

\* C5: for every code, every idx in 0..99 and every session kind, gen_name
\* returns "CU_TRI323_FT_" + code + "_S" + the two digits of idx, followed by
\* "_Lec/1" for a lecture, "_Workshop" for a workshop, and for a tutorial
\* "_Tut_B" when code starts with "MI", else "A Tut A" when code starts with
\* "ECS2", else "_Tut/1".
C5_GenName ==
  (run = "call" /\ status = "done" /\ args.fn = "gen_name" /\ args.idx \in 0..99) =>
    /\ ~ret.raised
    /\ ret.value = <<"C","U","_","T","R","I","3","2","3","_","F","T","_">> \o args.code \o <<"_","S">>
                   \o <<DigitChar(args.idx \div 10), DigitChar(args.idx % 10)>>
                   \o C5_Suffix(args.code, args.ct)

C5_Witness ==
  /\ run = "call" /\ status = "done" /\ args.fn = "gen_name"
  /\ args.idx = 7 /\ args.ct = "TUT" /\ args.code = <<"E","C","S","2","(","A","2","0","1","C","S",")">>
  /\ ret.value = <<"C","U","_","T","R","I","3","2","3","_","F","T","_","E","C","S","2","(","A","2","0","1","C","S",")","_","S","0","7","A"," ","T","u","t"," ","A">>

\* a call of gen_event that is over, and its arguments with the defaults of the signature
C_EventCall == run = "call" /\ status = "done" /\ args.fn = "gen_event"

C_Returned == C_EventCall /\ ~ret.raised

C_StartTime == args.kw.start_time

C_EndTime == Arg(args.kw, "end_time", None)

C_AllDay == Arg(args.kw, "all_day", FALSE)

C_Hours == Arg(args.kw, "duration", 3)

\* C6, as claimed: the start is start_time; with all_day false and no end_time
\* the event lasts duration hours (3 when omitted); with all_day true the event
\* is all-day and has no hour duration; with an end_time the end is end_time.
C6_TimeSpanAsClaimed ==
  C_Returned =>
    /\ ret.value.begin = Some(C_StartTime)
    /\ (~C_AllDay /\ C_EndTime = None) =>
          end_of(ret.value) - Timestamp(C_StartTime) = 60 * C_Hours
    /\ C_AllDay => (all_day_of(ret.value) /\ ret.value.duration = None)
    /\ C_EndTime # None => end_of(ret.value) = Timestamp(Val(C_EndTime))

\* C6, amended: as claimed, but the start of an all-day event is the midnight
\* that begins the day of start_time.
C6_TimeSpan ==
  C_Returned =>
    /\ ~C_AllDay => ret.value.begin = Some(C_StartTime)
    /\ C_AllDay => ret.value.begin = Some([C_StartTime EXCEPT !.hour = 0, !.minute = 0])
    /\ (~C_AllDay /\ C_EndTime = None) =>
          /\ end_of(ret.value) - Timestamp(C_StartTime) = 60 * C_Hours
          /\ ~all_day_of(ret.value)
    /\ C_AllDay => (all_day_of(ret.value) /\ ret.value.duration = None)
    /\ C_EndTime # None => end_of(ret.value) = Timestamp(Val(C_EndTime))

C6_Witness ==
  /\ C_Returned
  /\ ~C_AllDay /\ C_EndTime # None /\ "duration" \in DOMAIN args.kw /\ C_Hours = 2
  /\ end_of(ret.value) = Timestamp(Val(C_EndTime))
  /\ end_of(ret.value) # Timestamp(C_StartTime) + 120

\* C7: with alarms omitted or None the event has exactly one display reminder,
\* one hour before the start; with a list passed it has exactly that list,
\* none at all for the empty list.
C7_Alarms ==
  C_Returned =>
    IF Arg(args.kw, "alarms", None) = None
    THEN ret.value.alarms = <<[action |-> "DISPLAY", trigger |-> -60]>>
    ELSE ret.value.alarms = Val(args.kw.alarms)

C7_Witness ==
  /\ C_Returned
  /\ "alarms" \in DOMAIN args.kw /\ args.kw.alarms = Some(<<>>)
  /\ ret.value.alarms = <<>>

\* the label that C8 claims of a class_type
C8_Label(class_type) ==
  IF "enum" \in DOMAIN class_type
  THEN CASE class_type.enum = "WORKSHOP" -> <<"0">>
         [] class_type.enum = "LEC" -> <<"0","1"," ","L","e","c","t","u","r","e">>
         [] class_type.enum = "TUT" -> <<"0","2"," ","T","u","t","o","r","i","a","l">>
  ELSE CASE class_type.int = 0 -> <<"W","o","r","k","s","h","o","p">>
         [] class_type.int = 1 -> <<"0","1"," ","L","e","c","t","u","r","e">>
         [] class_type.int = 2 -> <<"0","2"," ","T","u","t","o","r","i","a","l">>
         [] OTHER -> <<>>

\* C8: the description is desc, a newline and the label of the session kind:
\* the member's value for a ClassType, CLASS_TYPES[class_type] for 0, 1 and 2,
\* nothing for another integer; name, location and the timetable url are
\* copied unchanged.
C8_Description ==
  C_Returned =>
    /\ ret.value.description =
         args.kw.desc \o <<"\n">> \o C8_Label(Arg(args.kw, "class_type", [enum |-> "LEC"]))
    /\ ret.value.name = args.kw.name
    /\ ret.value.location = Arg(args.kw, "location", <<"M","a","i","n"," ","W","i","n","g">>)
    /\ ret.value.url = <<"h","t","t","p","s",":","/","/","w","w","w",".","p","s","b","-","a","c","a","d","e","m","y",".","e","d","u",".","s","g","/","w","o","r","d","p","r","e","s","s","/","w","p","-","c","o","n","t","e","n","t","/","u","p","l","o","a","d","s","/","2","0","2","0","/","1","1","/","T","r","i","-","2","2","3","-","C","U","_","F","T","B","A","r","t","s","-","B","M","-","2","2","3","_","T","e","r","m","-","1","-","T","i","m","e","t","a","b","l","e",".","p","d","f">>

C8_Witness ==
  /\ C_Returned
  /\ "class_type" \in DOMAIN args.kw /\ args.kw.class_type = [int |-> 3]
  /\ args.kw.desc = <<"V","i","c","t","o","r"," ","O","n","g">>
  /\ ret.value.description = <<"V","i","c","t","o","r"," ","O","n","g">> \o <<"\n">>

\* C9: a run that fails, on a date that does not exist or on a path that is
\* not writable, writes nothing to psb.ics; a date that does not exist ends
\* the run before psb.ics is opened, so the file is as it was.
C9_FailedRunWritesNothing ==
  status = "failed" =>
    /\ error \in {"ValueError", "OSError"}
    /\ nwrite = 0
    /\ file = fileBefore
    /\ error = "ValueError" =>
          (nopen = 0 /\ ~fopen /\ Step \in {"gen_second_sem", "gen_first_sem"})

C9_Witness ==
  /\ run = "main" /\ status = "failed" /\ error = "ValueError" /\ fault > 0
  /\ writable /\ fileBefore = OldFile /\ file = OldFile /\ cal # {}

\* C10: a run of the main program with valid dates and a writable path
\* ends, and psb.ics is opened once and written once.
C10_EndsAfterOneWrite ==
  /\ (run = "main" /\ fault = 0 /\ writable) => <>(status = "done")
  /\ [](run = "main" => (nopen <= 1 /\ nwrite <= 1))
  /\ []((run = "main" /\ status = "done") => (nopen = 1 /\ nwrite = 1 /\ ~fopen))

C10_Witness == run = "main" /\ status = "done" /\ fault = 0 /\ nopen = 1 /\ nwrite = 1 /\ ~fopen

---------------------------------------------------------------------------
\* The session kinds an event carries, in its name and in its description

\* the kind gen_name wrote in the name
NameIsLec(name) == EndsWith(name, <<"L","e","c","/","1">>)

NameIsTut(name) ==
  EndsWith(name, <<"T","u","t","_","B">>) \/ EndsWith(name, <<"A"," ","T","u","t"," ","A">>) \/ EndsWith(name, <<"T","u","t","/","1">>)

\* the kind label at the end of the description
LabelIsLecture(description) == EndsWith(description, <<"0","1"," ","L","e","c","t","u","r","e">>)

LabelIsTutorial(description) == EndsWith(description, <<"0","2"," ","T","u","t","o","r","i","a","l">>)

\* C11: in the calendars built by gen_first_sem and gen_second_sem, the kind
\* in the name of every class session (Lec or Tut) agrees with the kind label
\* of its description ("01 Lecture" or "02 Tutorial").
C11_NameKindIsLabelKind ==
  \A e \in cal :
    IsSession(e.name) =>
      /\ NameIsLec(e.name) <=> LabelIsLecture(e.description)
      /\ NameIsTut(e.name) <=> LabelIsTutorial(e.description)

---------------------------------------------------------------------------
\* The two forms of class_type

\* the enum member that corresponds to an integer class_type
C12_Member(n) == CASE n = 0 -> "WORKSHOP" [] n = 1 -> "LEC" [] n = 2 -> "TUT"

\* the call just made, with the integer class_type replaced by its enum member
C12_EnumCall == gen_event_kw(ncalls, [args.kw EXCEPT !.class_type = [enum |-> C12_Member(@.int)]])

\* C12: a call of gen_event with class_type 0, 1 or 2 yields the description
\* that the same call with ClassType.WORKSHOP, ClassType.LEC or ClassType.TUT
\* in its place yields.
C12_IntAndEnumAgree ==
  (/\ C_Returned
   /\ "class_type" \in DOMAIN args.kw
   /\ "int" \in DOMAIN args.kw.class_type
   /\ args.kw.class_type.int \in 0..2) =>
    /\ ~C12_EnumCall.raised
    /\ C12_EnumCall.value.description = ret.value.description

---------------------------------------------------------------------------
\* The sessions of a course, told by the name gen_name made

\* the place of the "_" that ends the course code in a session name
CodeEnd(name) ==
  CHOOSE p \in (Len(SEM_PREFIX) + 2)..Len(name) :
    /\ name[p] = "_"
    /\ \A q \in (Len(SEM_PREFIX) + 2)..(p - 1) : name[q] # "_"

\* the course code of a session name
CourseOf(name) == SubSeq(name, Len(SEM_PREFIX) + 2, CodeEnd(name) - 1)

\* the value of a decimal digit
DigitValue(c) == CHOOSE d \in 0..9 : DigitChar(d) = c

\* the session index of a session name: the two digits after "_S"
IndexOf(name) == DigitValue(name[CodeEnd(name) + 2]) * 10 + DigitValue(name[CodeEnd(name) + 3])

\* C13: within each course of the calendars built by gen_first_sem and
\* gen_second_sem, a session of a lower index starts before a session of a
\* higher index.
C13_StartsIncreaseWithIndex ==
  \A e1, e2 \in cal :
    (/\ IsSession(e1.name) /\ IsSession(e2.name)
     /\ CourseOf(e1.name) = CourseOf(e2.name)
     /\ IndexOf(e1.name) < IndexOf(e2.name)) =>
      Timestamp(Val(e1.begin)) < Timestamp(Val(e2.begin))

---------------------------------------------------------------------------
\* The events that are no class session

\* sub in s, for Python strings
Contains(s, sub) == \E i \in 1..(Len(s) - Len(sub) + 1) : SubSeq(s, i, i + Len(sub) - 1) = sub

\* C14: in the calendars built by gen_first_sem and gen_second_sem, the
\* description of every event that is not a class session (a workshop, a
\* coursework due-date, the exam, a holiday break: the events built without a
\* class_type) contains neither "01 Lecture" nor "02 Tutorial".
C14_NoLabelWithoutClassType ==
  \A e \in cal :
    ~IsSession(e.name) =>
      /\ ~Contains(e.description, <<"0","1"," ","L","e","c","t","u","r","e">>)
      /\ ~Contains(e.description, <<"0","2"," ","T","u","t","o","r","i","a","l">>)

---------------------------------------------------------------------------
\* The holiday breaks and the other events

\* the day an instant falls on
DayOf(instant) == instant \div 1440

\* the instant an event starts
StartOf(e) == Timestamp(Val(e.begin))

\* C15: in the calendar built by gen_second_sem, for every holiday break and
\* every other event, the other event does not start on a day from the
\* break's first day to its last, and its time span (the three hours of a
\* session or of the exam, the day of a due-date) does not meet the break.
C15_NothingInsideABreak ==
  run = "main" =>
    \A b, x \in cal :
      (IsBreak(b.name) /\ x # b) =>
        /\ DayOf(StartOf(x)) \notin DayOf(StartOf(b))..DayOf(end_of(b))
        /\ end_of(x) < StartOf(b) \/ StartOf(x) > end_of(b)

C15_Witness ==
  /\ run = "main" /\ status = "done"
  /\ Cardinality({b \in cal : IsBreak(b.name)}) = 4
  /\ \E b, x \in cal :
       /\ b.name = <<"M","i","d","t","e","r","m"," ","B","r","e","a","k">> /\ StartOf(b) < end_of(b)
       /\ IsSession(x.name) /\ end_of(x) = StartOf(x) + 180
       /\ DayOf(StartOf(b)) - DayOf(StartOf(x)) = 3
  /\ \E x \in cal : x.name = <<"C","o","n","s","u","m","e","r"," ","B","e","h","a","v","i","o","u","r"," ","E","x","a","m">>
  /\ \E x \in cal : IsDueDate(x.name)

====
